---- MODULE Spec2Model ----
(***************************************************************************)
(* The two streaming read loops of the data-loader wizard and the entity   *)
(* list they update:                                                       *)
(*   - IngestionProcess.handleIngestion  (step "Ingestion")                *)
(*   - FileProcessing.processFiles       (step "File Processing")          *)
(* Both read a server-sent-event stream chunk by chunk, cut it into        *)
(* frames, parse each frame's payload and merge it into `files`.           *)
(*                                                                         *)
(* Text is a sequence of tokens.  A token is a record of one shape; the    *)
(* token "{" is the opening part of a JSON object and carries the fields   *)
(* the object has, "}" closes it.  JSON.parse succeeds on exactly          *)
(* <<opener, closer>> (surrounded by optional white space).                *)
(***************************************************************************)
EXTENDS Integers, Sequences, FiniteSets, TLC

VARIABLES
    files,               \* page state: FileData[] (a sequence, in list order)
    currentStep,         \* page state: the wizard step shown
    passes,              \* every call of handleIngestion / startProcessing so far
    isIngesting,         \* IngestionProcess state
    apiError,            \* IngestionProcess state
    ingestionProgress,   \* page state, set through setProgress of IngestionProcess
    isProcessing,        \* FileProcessing state
    error,               \* FileProcessing state
    processedFileCount,  \* FileProcessing state
    processingProgress,  \* page state, set through setProgress of FileProcessing
    lastMerges,          \* history: the setFiles merges of the last step, in order
    delivered,           \* byte source: chunks delivered so far, over all passes
    stream,              \* byte source of the framing runs: the whole body
    fed,                 \* byte source of the framing runs: tokens delivered so far
    emitted              \* history of the framing runs: all frames handed to JSON.parse

vars == <<files, currentStep, passes, isIngesting, apiError, ingestionProgress,
          isProcessing, error, processedFileCount, processingProgress,
          lastMerges, delivered, stream, fed, emitted>>

pageVars == <<files, currentStep>>
ingestVars == <<isIngesting, apiError, ingestionProgress>>
processVars == <<isProcessing, error, processedFileCount, processingProgress>>
frameVars == <<delivered, stream, fed, emitted>>

-----------------------------------------------------------------------------
(* Bounds *)

MaxReads == 2     \* chunks of data the server delivers in one run, over all passes
MaxPasses == 2    \* passes started in one run
MaxFrames == 2    \* complete frames in a body of the framing runs

-----------------------------------------------------------------------------
(* Values *)

Undefined == "-"
NoProgress == -1          \* `undefined` where a number is expected

FileIds == <<"A", "B">>   \* the ids of the files of the list, in list order
WireIds == {"A", "B", "U"}

ConnectionError == "Connection error during ingestion."
RequestFailed == "Ingestion request failed"
ReadFailed == "network error"
BadJson == "SyntaxError"

-----------------------------------------------------------------------------
(* Tokens and text *)

Tok(t) ==
    [t |-> t, key |-> Undefined, id |-> Undefined, status |-> Undefined,
     error |-> Undefined, progress |-> NoProgress]

DATA == Tok("data:")
SP == Tok(" ")
NL == Tok("\n")
CLOSE == Tok("}")

Opener(key, id, status, err, progress) ==
    [t |-> "{", key |-> key, id |-> id, status |-> status,
     error |-> err, progress |-> progress]

\* The (status, error) pairs a record of the wire carries.
Outcomes == {<<"success", Undefined>>, <<"failed", "timeout">>, <<"pending", Undefined>>}

\* The JSON objects the server may send.
Openers ==
    {Opener("fileId", i, o[1], o[2], NoProgress) : i \in WireIds, o \in Outcomes}
    \cup {Opener("file_id", "B", o[1], o[2], NoProgress) : o \in Outcomes}
    \cup {Opener(Undefined, Undefined, "success", Undefined, NoProgress)}
    \cup {Opener("fileId", "A", "success", Undefined, 100)}
    \cup {Opener("fileId", "A", "success", "warning", NoProgress)}

IsSpace(c) == c = SP \/ c = NL

RECURSIVE TrimStart(_)
TrimStart(s) ==
    IF s # <<>> /\ IsSpace(Head(s)) THEN TrimStart(Tail(s)) ELSE s

RECURSIVE TrimEnd(_)
TrimEnd(s) ==
    IF s # <<>> /\ IsSpace(s[Len(s)]) THEN TrimEnd(SubSeq(s, 1, Len(s) - 1)) ELSE s

Trim(s) == TrimEnd(TrimStart(s))

\* JSON.parse: the object, or BadJson when it throws.
JSONParse(text) ==
    LET s == Trim(text)
    IN  IF Len(s) = 2 /\ s[1].t = "{" /\ s[2] = CLOSE THEN s[1] ELSE Tok(BadJson)

Payload(o) == <<o, CLOSE>>
Frame(o) == <<DATA, SP>> \o Payload(o) \o <<NL, NL>>

\* buffer.indexOf("\n\n"), as a position from 1; 0 when absent.
IndexOfBoundary(buffer) ==
    LET hits == {i \in 1..(Len(buffer) - 1) : buffer[i] = NL /\ buffer[i + 1] = NL}
    IN  IF hits = {} THEN 0 ELSE CHOOSE i \in hits : \A j \in hits : i <= j

-----------------------------------------------------------------------------
(* The entity list *)

NewFile(id, processed) ==
    [id |-> id, selected |-> TRUE, processed |-> processed, analysis |-> Undefined,
     error |-> Undefined, ingestionStatus |-> Undefined, ingestionDetails |-> Undefined]

\* prevFiles.map(f => cond(f) ? change(f) : f)
MapFiles(fs, Cond(_), Change(_)) ==
    [k \in DOMAIN fs |-> IF Cond(fs[k]) THEN Change(fs[k]) ELSE fs[k]]

\* files.filter(cond), as the set of the ids kept
IdsWhere(fs, Cond(_)) == {fs[k].id : k \in {j \in DOMAIN fs : Cond(fs[j])}}

CountWhere(fs, Cond(_)) == Cardinality({k \in DOMAIN fs : Cond(fs[k])})

FileOf(fs, id) == fs[CHOOSE k \in DOMAIN fs : fs[k].id = id]

-----------------------------------------------------------------------------
(* IngestionProcess: derived values of a render *)

IsIngestSelected(f) == f.selected /\ f.processed

successCount == CountWhere(files, LAMBDA f : IsIngestSelected(f) /\ f.ingestionStatus = "success")

failedCount == CountWhere(files, LAMBDA f : IsIngestSelected(f) /\ f.ingestionStatus = "failed")

pendingCount == CountWhere(files, LAMBDA f : IsIngestSelected(f) /\ f.ingestionStatus = "pending")

totalTracked == CountWhere(files, IsIngestSelected)

-----------------------------------------------------------------------------
(* IngestionProcess.handleIngestion: one chunk *)

\* result.fileId
ResultFileId(result) == IF result.key = "fileId" THEN result.id ELSE Undefined

\* result.ingestionDetails: the server sends details with a success
ResultDetails(result) == IF result.status = "success" THEN "details" ELSE Undefined

\* A variant of the updater that inserts the entity when no file has the id.
MergeIngestUpsert(prevFiles, result) ==
    IF \E k \in DOMAIN prevFiles : prevFiles[k].id = ResultFileId(result)
    THEN MapFiles(prevFiles,
                  LAMBDA f : f.id = ResultFileId(result),
                  LAMBDA f : [f EXCEPT !.ingestionStatus = result.status,
                                       !.ingestionDetails = ResultDetails(result),
                                       !.error = result.error])
    ELSE Append(prevFiles,
                [NewFile(ResultFileId(result), TRUE) EXCEPT
                     !.ingestionStatus = result.status,
                     !.ingestionDetails = ResultDetails(result),
                     !.error = result.error])

\* A variant of the updater that leaves an error text with every result.
MergeIngestAlwaysError(prevFiles, result) ==
    MapFiles(prevFiles,
             LAMBDA f : f.id = ResultFileId(result),
             LAMBDA f : [f EXCEPT !.ingestionStatus = result.status,
                                  !.ingestionDetails = ResultDetails(result),
                                  !.error = IF result.error = Undefined
                                            THEN result.status
                                            ELSE result.error])

\* the setFiles updater of the read loop
MergeIngest(prevFiles, result) ==
    MapFiles(prevFiles,
             LAMBDA f : f.id = ResultFileId(result),
             LAMBDA f : [f EXCEPT !.ingestionStatus = result.status,
                                  !.ingestionDetails = ResultDetails(result),
                                  !.error = result.error])

\* message.startsWith("data: ")
StartsWithData(message) == Len(message) >= 2 /\ message[1] = DATA /\ message[2] = SP

\* The inner while loop: every complete message of the buffer, in order.
\* acc = [pass, buffer, files, progress, merges, frames, thrown]
RECURSIVE IngestDrain(_)
IngestDrain(acc) ==
    LET boundary == IndexOfBoundary(acc.buffer)
        message == SubSeq(acc.buffer, 1, boundary - 1)
        rest == SubSeq(acc.buffer, boundary + 2, Len(acc.buffer))
        jsonStr == SubSeq(message, 3, Len(message))
        result == JSONParse(jsonStr)
    IN  IF boundary = 0 THEN acc
        ELSE IF ~StartsWithData(message) THEN IngestDrain([acc EXCEPT !.buffer = rest])
        ELSE IF result.t = BadJson
             THEN [acc EXCEPT !.buffer = rest, !.thrown = TRUE,
                              !.frames = Append(@, jsonStr)]
        ELSE IngestDrain([acc EXCEPT
                 !.buffer = rest,
                 !.files = MergeIngest(@, result),
                 !.progress = result.progress,
                 !.frames = Append(@, jsonStr),
                 !.merges = Append(@, [pass |-> acc.pass, id |-> ResultFileId(result), event |-> result,
                                       before |-> acc.files,
                                       after |-> MergeIngest(acc.files, result)])])

\* A variant of the catch block's updater that writes a status no counter counts.
FailPendingIngestAsError(prevFiles) ==
    MapFiles(prevFiles,
             LAMBDA f : f.ingestionStatus = "pending",
             LAMBDA f : [f EXCEPT !.ingestionStatus = "error", !.error = ConnectionError])

\* the catch block's setFiles updater
FailPendingIngest(prevFiles) ==
    MapFiles(prevFiles,
             LAMBDA f : f.ingestionStatus = "pending",
             LAMBDA f : [f EXCEPT !.ingestionStatus = "failed", !.error = ConnectionError])

\* A variant of the reset that keeps the error message of the last pass.
ResetIngestKeepError(prevFiles, ids) ==
    MapFiles(prevFiles,
             LAMBDA f : f.id \in ids,
             LAMBDA f : [f EXCEPT !.ingestionStatus = "pending",
                                  !.ingestionDetails = Undefined])

\* the setFiles updater at the start of handleIngestion
ResetIngest(prevFiles, ids) ==
    MapFiles(prevFiles,
             LAMBDA f : f.id \in ids,
             LAMBDA f : [f EXCEPT !.ingestionStatus = "pending",
                                  !.ingestionDetails = Undefined,
                                  !.error = Undefined])

-----------------------------------------------------------------------------
(* FileProcessing: derived values of a render *)

IsSelected(f) == f.selected

IsFailedFile(f) == f.selected /\ f.processed /\ f.error # Undefined

selectedFiles == IdsWhere(files, IsSelected)

failedFiles == IdsWhere(files, IsFailedFile)

allFilesProcessed == selectedFiles # {} /\ \A k \in DOMAIN files : files[k].selected => files[k].processed

-----------------------------------------------------------------------------
(* FileProcessing.processFiles: one chunk *)

\* Where /(?:^|\n)data:/ can match at or after lastIndex: the positions (from 1)
\* of the `data:` token of such a match.  `^` matches at the start of the buffer
\* only, `\n` is consumed by the match, so it lies at or after lastIndex.
DataStarts(buffer, lastIndex) ==
    {d \in 1..Len(buffer) :
        /\ buffer[d] = DATA
        /\ \/ d = 1 /\ lastIndex = 0
           \/ d >= 2 /\ d - 1 > lastIndex /\ buffer[d - 1] = NL}

\* \s* is greedy: the first position after d that holds no white space
RECURSIVE SkipSpace(_, _)
SkipSpace(buffer, p) ==
    IF p <= Len(buffer) /\ IsSpace(buffer[p]) THEN SkipSpace(buffer, p + 1) ELSE p

\* ((?:.|\n)*?)(?=\n\n|$) is lazy: the first position q >= p that is followed by
\* a blank line or is the end of the buffer
RECURSIVE LazyEnd(_, _)
LazyEnd(buffer, q) ==
    IF q > Len(buffer) THEN q
    ELSE IF q < Len(buffer) /\ buffer[q] = NL /\ buffer[q + 1] = NL THEN q
    ELSE LazyEnd(buffer, q + 1)

\* dataBlockRegex.exec(buffer) from dataBlockRegex.lastIndex:
\* [found, raw (match[1]), lastIndex (after the match)]
RegexExec(buffer, lastIndex) ==
    LET starts == DataStarts(buffer, lastIndex)
        d == CHOOSE x \in starts : \A y \in starts : x <= y
        p == SkipSpace(buffer, d + 1)
        q == LazyEnd(buffer, p)
    IN  IF starts = {} THEN [found |-> FALSE, raw |-> <<>>, lastIndex |-> 0]
        ELSE [found |-> TRUE, raw |-> SubSeq(buffer, p, q - 1), lastIndex |-> q - 1]

\* payload.fileId ?? payload.file_id ?? null
PayloadFileId(payload) ==
    IF payload.key \in {"fileId", "file_id"} THEN payload.id ELSE Undefined

\* A variant of the updater that forgets the test of the id.
MergeProcessEvery(prevFiles, payload) ==
    MapFiles(prevFiles,
             LAMBDA f : TRUE,
             LAMBDA f : [f EXCEPT !.processed = TRUE,
                                  !.analysis = "payload",
                                  !.error = payload.error])

\* the map of the setFiles updater of the read loop
MergeProcess(prevFiles, payload) ==
    MapFiles(prevFiles,
             LAMBDA f : f.id = PayloadFileId(payload),
             LAMBDA f : [f EXCEPT !.processed = TRUE,
                                  !.analysis = "payload",
                                  !.error = payload.error])

\* processedSoFar / Math.max(1, selectedFiles.length) * 100, in whole percent
Percent(processedSoFar, selectedLength) ==
    (processedSoFar * 100) \div (IF selectedLength < 1 THEN 1 ELSE selectedLength)

\* The inner while loop: every match of the buffer, in order.
\* acc = [pass, buffer, from, lastIndex, files, count, progress, merges, frames]
RECURSIVE ProcessDrain(_, _)
ProcessDrain(acc, selectedLength) ==
    LET match == RegexExec(acc.buffer, acc.from)
        rawData == Trim(match.raw)
        payload == JSONParse(rawData)
        seen == [acc EXCEPT !.from = match.lastIndex, !.lastIndex = match.lastIndex,
                            !.frames = Append(@, rawData)]
        updated == MergeProcess(acc.files, payload)
        processedSoFar == CountWhere(updated, LAMBDA f : f.selected /\ f.processed)
    IN  IF ~match.found THEN acc
        ELSE IF payload.t = BadJson THEN ProcessDrain(seen, selectedLength)
        ELSE IF PayloadFileId(payload) = Undefined THEN ProcessDrain(seen, selectedLength)
        ELSE ProcessDrain([seen EXCEPT
                 !.files = updated,
                 !.count = processedSoFar,
                 !.progress = Percent(processedSoFar, selectedLength),
                 !.merges = Append(@, [pass |-> acc.pass, id |-> PayloadFileId(payload), event |-> payload,
                                       before |-> acc.files, after |-> updated])],
                 selectedLength)

\* the setFiles updater of startProcessing and of retryFailedProcessing
ResetProcess(prevFiles, ids) ==
    MapFiles(prevFiles,
             LAMBDA f : f.id \in ids,
             LAMBDA f : [f EXCEPT !.processed = FALSE,
                                  !.analysis = Undefined,
                                  !.error = Undefined])

-----------------------------------------------------------------------------
(* The byte source *)

\* The objects whose frames the server may also deliver in pieces.
PieceOpeners == {Opener("fileId", "B", "failed", "timeout", NoProgress)}

\* What one reader.read() may deliver: a whole frame, a frame cut inside its
\* payload or between the two newlines of its boundary, a payload that no blank
\* line follows, a frame whose payload is cut short.
Chunks ==
    {Frame(o) : o \in Openers}
    \cup {<<DATA, SP, o>> : o \in PieceOpeners}
    \cup {<<CLOSE, NL, NL>>, <<NL>>}
    \cup {<<DATA, SP, o, CLOSE, NL>> : o \in PieceOpeners}
    \cup {<<DATA, SP, o, CLOSE>> : o \in PieceOpeners}
    \cup {<<DATA, SP, o, NL, NL>> : o \in PieceOpeners}

-----------------------------------------------------------------------------
(* Passes *)

NewPass(kind, pc, ids, selectedLength) ==
    [kind |-> kind, pc |-> pc, ids |-> ids, selectedLength |-> selectedLength,
     buffer |-> <<>>, outcome |-> "none", notified |-> 0,
     released |-> FALSE]

PassIds == 1..Len(passes)

\* a read loop that has a reader and has not left the loop
InFlight(p) == passes[p].pc = "read"

History(merges) == lastMerges' = merges

-----------------------------------------------------------------------------
(* IngestionProcess *)

\* handleIngestion up to `await fetch`
HandleIngestion(filesToProcess) ==
    IF filesToProcess = {}
    THEN UNCHANGED <<files, passes, ingestVars>>
    ELSE /\ isIngesting' = TRUE
         /\ apiError' = Undefined
         /\ ingestionProgress' = 0
         /\ files' = ResetIngest(files, filesToProcess)
         /\ passes' = Append(passes, NewPass("ingest", "fetch", filesToProcess, 0))

\* click on "Start Ingestion"
StartIngestion ==
    /\ currentStep = 5
    /\ ~isIngesting
    /\ totalTracked # 0
    /\ Len(passes) < MaxPasses
    /\ HandleIngestion(IdsWhere(files, IsIngestSelected))
    /\ History(<<>>)
    /\ UNCHANGED <<currentStep, processVars, frameVars>>

\* click on "Retry n Failed"
RetryFailedIngestion ==
    /\ currentStep = 5
    /\ failedCount > 0
    /\ ~isIngesting
    /\ Len(passes) < MaxPasses
    /\ HandleIngestion(IdsWhere(files, LAMBDA f : f.ingestionStatus = "failed"))
    /\ History(<<>>)
    /\ UNCHANGED <<currentStep, processVars, frameVars>>

\* the catch block and the finally block
IngestCatch(p, pass, fs, message) ==
    /\ apiError' = message
    /\ files' = FailPendingIngest(fs)
    /\ isIngesting' = FALSE
    /\ passes' = [passes EXCEPT ![p] = [pass EXCEPT !.pc = "done", !.outcome = "failed",
                                                    !.notified = @ + 1,
                                                    !.buffer = <<>>]]

\* fetch resolves with a body: the reader is taken
IngestResponse(p) ==
    /\ passes[p].kind = "ingest"
    /\ passes[p].pc = "fetch"
    /\ passes' = [passes EXCEPT ![p].pc = "read"]
    /\ History(<<>>)
    /\ UNCHANGED <<pageVars, ingestVars, processVars, frameVars>>

\* fetch rejects, the response is not ok, or it has no body
IngestRequestFails(p) ==
    /\ passes[p].kind = "ingest"
    /\ passes[p].pc = "fetch"
    /\ IngestCatch(p, passes[p], files, RequestFailed)
    /\ History(<<>>)
    /\ UNCHANGED <<currentStep, ingestionProgress, processVars, frameVars>>

\* reader.read() resolves with a chunk: the loop body, up to the next read
IngestLoopBody(p, chunk) ==
    IngestDrain([pass |-> p, buffer |-> passes[p].buffer \o chunk, files |-> files,
                 progress |-> ingestionProgress, merges |-> <<>>,
                 frames |-> <<>>, thrown |-> FALSE])

IngestOnData(p, chunk) ==
    LET pass == passes[p]
        out == IngestLoopBody(p, chunk)
        read == [pass EXCEPT !.buffer = out.buffer]
    IN  /\ pass.kind = "ingest"
        /\ pass.pc = "read"
        /\ ingestionProgress' = out.progress
        /\ IF out.thrown
           THEN IngestCatch(p, read, out.files, BadJson)
           ELSE /\ files' = out.files
                /\ passes' = [passes EXCEPT ![p] = read]
                /\ UNCHANGED <<isIngesting, apiError>>
        /\ History(out.merges)
        /\ UNCHANGED <<currentStep, processVars>>

IngestRead(p) ==
    /\ delivered < MaxReads
    /\ \E chunk \in Chunks : IngestOnData(p, chunk)
    /\ delivered' = delivered + 1
    /\ UNCHANGED <<stream, fed, emitted>>

\* reader.read() resolves with done: break, then the finally block
IngestOnDone(p) ==
    /\ passes[p].kind = "ingest"
    /\ passes[p].pc = "read"
    /\ isIngesting' = FALSE
    /\ passes' = [passes EXCEPT ![p].pc = "done", ![p].outcome = "completed",
                                ![p].buffer = <<>>]
    /\ History(<<>>)
    /\ UNCHANGED <<pageVars, apiError, ingestionProgress, processVars>>

IngestReadDone(p) == IngestOnDone(p) /\ UNCHANGED frameVars

\* reader.read() rejects
IngestReadFails(p) ==
    /\ passes[p].kind = "ingest"
    /\ passes[p].pc = "read"
    /\ IngestCatch(p, passes[p], files, ReadFailed)
    /\ History(<<>>)
    /\ UNCHANGED <<currentStep, ingestionProgress, processVars, frameVars>>

-----------------------------------------------------------------------------
(* FileProcessing *)

\* click on "Start Processing": startProcessing up to its setTimeout
StartProcessing ==
    /\ currentStep = 2
    /\ ~isProcessing
    /\ selectedFiles # {}
    /\ ~allFilesProcessed
    /\ Len(passes) < MaxPasses
    /\ processingProgress' = 0
    /\ processedFileCount' = 0
    /\ files' = ResetProcess(files, selectedFiles)
    /\ passes' = Append(passes, NewPass("process", "timer", selectedFiles,
                                        Cardinality(selectedFiles)))
    /\ History(<<>>)
    /\ UNCHANGED <<currentStep, isProcessing, error, ingestVars, frameVars>>

\* click on "Retry Failed (n)": retryFailedProcessing up to its setTimeout
RetryFailedProcessing ==
    /\ currentStep = 2
    /\ ~isProcessing
    /\ failedFiles # {}
    /\ Len(passes) < MaxPasses
    /\ files' = ResetProcess(files, failedFiles)
    /\ passes' = Append(passes, NewPass("process", "timer", failedFiles,
                                        Cardinality(selectedFiles)))
    /\ History(<<>>)
    /\ UNCHANGED <<currentStep, processVars, ingestVars, frameVars>>

\* the timer of 50 ms fires: processFiles up to `await fetch`.
\* Timers of one delay fire in the order they were set.
ProcessFiles(p) ==
    /\ passes[p].kind = "process"
    /\ passes[p].pc = "timer"
    /\ \A q \in 1..(p - 1) : passes[q].pc # "timer"
    /\ IF passes[p].ids = {}
       THEN /\ passes' = [passes EXCEPT ![p].pc = "done"]
            /\ UNCHANGED <<isProcessing, error>>
       ELSE /\ isProcessing' = TRUE
            /\ error' = Undefined
            /\ passes' = [passes EXCEPT ![p].pc = "fetch"]
    /\ History(<<>>)
    /\ UNCHANGED <<pageVars, processedFileCount, processingProgress, ingestVars, frameVars>>

\* the catch block and the finally block
ProcessCatch(p, pass, message) ==
    /\ error' = message
    /\ isProcessing' = FALSE
    /\ passes' = [passes EXCEPT ![p] = [pass EXCEPT !.pc = "done", !.outcome = "failed",
                                                    !.notified = @ + 1,
                                                    !.buffer = <<>>]]

\* fetch resolves with a body: the reader is taken
ProcessResponse(p) ==
    /\ passes[p].kind = "process"
    /\ passes[p].pc = "fetch"
    /\ passes' = [passes EXCEPT ![p].pc = "read"]
    /\ History(<<>>)
    /\ UNCHANGED <<pageVars, ingestVars, processVars, frameVars>>

\* fetch rejects, the response is not ok, or it has no body
ProcessRequestFails(p) ==
    /\ passes[p].kind = "process"
    /\ passes[p].pc = "fetch"
    /\ ProcessCatch(p, passes[p], RequestFailed)
    /\ History(<<>>)
    /\ UNCHANGED <<pageVars, processedFileCount, processingProgress, ingestVars, frameVars>>

\* A variant of the loop body whose merges start from the files as the reset of
\* the pass left them (a copy taken when the pass began), not from the latest.
ProcessLoopBodyStale(p, chunk) ==
    ProcessDrain([pass |-> p, buffer |-> passes[p].buffer \o chunk, from |-> 0,
                  lastIndex |-> 0, files |-> ResetProcess(files, passes[p].ids),
                  count |-> processedFileCount,
                  progress |-> processingProgress, merges |-> <<>>, frames |-> <<>>],
                 passes[p].selectedLength)

\* reader.read() resolves with a chunk: the loop body, up to the next read
ProcessLoopBody(p, chunk) ==
    ProcessDrain([pass |-> p, buffer |-> passes[p].buffer \o chunk, from |-> 0,
                  lastIndex |-> 0, files |-> files, count |-> processedFileCount,
                  progress |-> processingProgress, merges |-> <<>>, frames |-> <<>>],
                 passes[p].selectedLength)

ProcessOnData(p, chunk) ==
    LET pass == passes[p]
        out == ProcessLoopBody(p, chunk)
    IN  /\ pass.kind = "process"
        /\ pass.pc = "read"
        /\ files' = out.files
        /\ processedFileCount' = out.count
        /\ processingProgress' = out.progress
        /\ passes' = [passes EXCEPT
               ![p].buffer = SubSeq(out.buffer, out.lastIndex + 1, Len(out.buffer))]
        /\ History(out.merges)
        /\ UNCHANGED <<currentStep, isProcessing, error, ingestVars>>

ProcessRead(p) ==
    /\ delivered < MaxReads
    /\ \E chunk \in Chunks : ProcessOnData(p, chunk)
    /\ delivered' = delivered + 1
    /\ UNCHANGED <<stream, fed, emitted>>

\* reader.read() resolves with done: break, reader.cancel(), then the finally block
ProcessOnDone(p) ==
    /\ passes[p].kind = "process"
    /\ passes[p].pc = "read"
    /\ isProcessing' = FALSE
    /\ passes' = [passes EXCEPT ![p].pc = "done", ![p].outcome = "completed",
                                ![p].released = TRUE, ![p].buffer = <<>>]
    /\ History(<<>>)
    /\ UNCHANGED <<pageVars, error, processedFileCount, processingProgress, ingestVars>>

ProcessReadDone(p) == ProcessOnDone(p) /\ UNCHANGED frameVars

\* reader.read() rejects
ProcessReadFails(p) ==
    /\ passes[p].kind = "process"
    /\ passes[p].pc = "read"
    /\ ProcessCatch(p, passes[p], ReadFailed)
    /\ History(<<>>)
    /\ UNCHANGED <<pageVars, processedFileCount, processingProgress, ingestVars, frameVars>>

-----------------------------------------------------------------------------
(* The wizard with one of the two steps shown *)

Init ==
    /\ currentStep \in {2, 5}
    /\ files = [k \in DOMAIN FileIds |-> NewFile(FileIds[k], currentStep = 5)]
    /\ passes = <<>>
    /\ isIngesting = FALSE
    /\ apiError = Undefined
    /\ ingestionProgress = 0
    /\ isProcessing = FALSE
    /\ error = Undefined
    /\ processedFileCount = 0
    /\ processingProgress = 0
    /\ lastMerges = <<>>
    /\ delivered = 0
    /\ stream = <<>>
    /\ fed = 0
    /\ emitted = <<>>

Next ==
    \/ StartIngestion
    \/ RetryFailedIngestion
    \/ StartProcessing
    \/ RetryFailedProcessing
    \/ \E p \in PassIds :
        \/ IngestResponse(p)
        \/ IngestRequestFails(p)
        \/ IngestRead(p)
        \/ IngestReadDone(p)
        \/ IngestReadFails(p)
        \/ ProcessFiles(p)
        \/ ProcessResponse(p)
        \/ ProcessRequestFails(p)
        \/ ProcessRead(p)
        \/ ProcessReadDone(p)
        \/ ProcessReadFails(p)

Spec == Init /\ [][Next]_vars

-----------------------------------------------------------------------------
(* The framing runs: one pass whose body is fixed, cut into chunks at will *)

\* The objects of the bodies of the framing runs.
StreamOpeners ==
    {Opener("fileId", "A", "success", Undefined, NoProgress),
     Opener("fileId", "B", "failed", "timeout", NoProgress)}

RECURSIVE Bodies(_)
Bodies(n) ==
    IF n = 0 THEN {<<>>}
    ELSE Bodies(n - 1) \cup {b \o Frame(o) : b \in Bodies(n - 1), o \in StreamOpeners}

\* What may follow the last blank line of a body: nothing, or a payload that no
\* blank line follows.
Tails ==
    {<<>>}
    \cup {<<DATA, SP>> \o Payload(o) : o \in StreamOpeners}
    \cup {<<DATA, SP>> \o Payload(o) \o <<NL>> : o \in StreamOpeners}

Streams == {b \o t : b \in Bodies(MaxFrames), t \in Tails} \ {<<>>}

AllIds == {FileIds[k] : k \in DOMAIN FileIds}

\* The files after the reset of a pass over all of them.
FilesAfterReset(step) ==
    LET fresh == [k \in DOMAIN FileIds |-> NewFile(FileIds[k], step = 5)]
    IN  IF step = 5 THEN ResetIngest(fresh, AllIds) ELSE ResetProcess(fresh, AllIds)

\* The state after the click and the response of a pass over all files.
InitFrames ==
    /\ currentStep \in {2, 5}
    /\ stream \in Streams
    /\ fed = 0
    /\ emitted = <<>>
    /\ delivered = 0
    /\ lastMerges = <<>>
    /\ LET ids == AllIds
       IN  /\ files = FilesAfterReset(currentStep)
           /\ passes = <<NewPass(IF currentStep = 5 THEN "ingest" ELSE "process", "read",
                                 ids, IF currentStep = 5 THEN 0 ELSE Cardinality(ids))>>
    /\ isIngesting = (currentStep = 5)
    /\ apiError = Undefined
    /\ ingestionProgress = 0
    /\ isProcessing = (currentStep = 2)
    /\ error = Undefined
    /\ processedFileCount = 0
    /\ processingProgress = 0

\* reader.read() resolves with the next n tokens of the body
NextChunk(n) == SubSeq(stream, fed + 1, fed + n)

IngestFeed ==
    \E n \in 1..(Len(stream) - fed) :
        /\ IngestOnData(1, NextChunk(n))
        /\ fed' = fed + n
        /\ emitted' = emitted \o IngestLoopBody(1, NextChunk(n)).frames
        /\ UNCHANGED <<delivered, stream>>

IngestFeedEnd ==
    /\ fed = Len(stream)
    /\ IngestOnDone(1)
    /\ UNCHANGED frameVars

ProcessFeed ==
    \E n \in 1..(Len(stream) - fed) :
        /\ ProcessOnData(1, NextChunk(n))
        /\ fed' = fed + n
        /\ emitted' = emitted \o ProcessLoopBody(1, NextChunk(n)).frames
        /\ UNCHANGED <<delivered, stream>>

ProcessFeedEnd ==
    /\ fed = Len(stream)
    /\ ProcessOnDone(1)
    /\ UNCHANGED frameVars

NextFrames ==
    \/ IngestFeed
    \/ IngestFeedEnd
    \/ ProcessFeed
    \/ ProcessFeedEnd

SpecFrames == InitFrames /\ [][NextFrames]_vars

-----------------------------------------------------------------------------
(* Reference definitions of the wire format, used to state the properties *)

\* The text after the last blank line of s (blank lines taken left to right).
RECURSIVE TrailingPartial(_)
TrailingPartial(s) ==
    IF IndexOfBoundary(s) = 0 THEN s
    ELSE TrailingPartial(SubSeq(s, IndexOfBoundary(s) + 2, Len(s)))

\* The payloads of the frames of s that a blank line ends, in order.
RECURSIVE TerminatedPayloads(_)
TerminatedPayloads(s) ==
    LET b == IndexOfBoundary(s)
        message == SubSeq(s, 1, b - 1)
        rest == TerminatedPayloads(SubSeq(s, b + 2, Len(s)))
    IN  IF b = 0 THEN <<>>
        ELSE IF StartsWithData(message) THEN <<SubSeq(message, 3, Len(message))>> \o rest
        ELSE rest

IsSuffix(t, s) == Len(t) <= Len(s) /\ SubSeq(s, Len(s) - Len(t) + 1, Len(s)) = t

Occurrences(seq, x) == Cardinality({k \in DOMAIN seq : seq[k] = x})

\* The read loop of the framing run, given the whole body in one read.
OneRead ==
    IF passes[1].kind = "ingest"
    THEN IngestDrain([pass |-> 1, buffer |-> stream, files |-> FilesAfterReset(5),
                      progress |-> 0, merges |-> <<>>, frames |-> <<>>, thrown |-> FALSE])
    ELSE ProcessDrain([pass |-> 1, buffer |-> stream, from |-> 0, lastIndex |-> 0,
                       files |-> FilesAfterReset(2), count |-> 0, progress |-> 0,
                       merges |-> <<>>, frames |-> <<>>], passes[1].selectedLength)

FramingDone == stream # <<>> /\ passes[1].pc = "done"

\* The status of an entity, as each component shows it.
StatusOf(kind, f) ==
    IF kind = "ingest"
    THEN CASE f.ingestionStatus = "pending" -> "Pending"
           [] f.ingestionStatus = "success" -> "Succeeded"
           [] f.ingestionStatus = "failed" -> "Failed"
           [] OTHER -> "Waiting"
    ELSE IF ~f.processed THEN "Pending"
         ELSE IF f.error # Undefined THEN "Failed" ELSE "Succeeded"

\* The status an event reports.
EventStatus(event) ==
    CASE event.status = "success" -> "Succeeded"
      [] event.status = "failed" -> "Failed"
      [] OTHER -> "Pending"

Terminal == {"Succeeded", "Failed"}

KindOf(m) == passes[m.pass].kind

\* the top-level error of the component of pass p
TopError(p) == IF passes[p].kind = "ingest" THEN apiError ELSE error

\* a step in which the request or a read of pass p fails
TransportFails(p) ==
    \/ IngestRequestFails(p)
    \/ IngestReadFails(p)
    \/ ProcessRequestFails(p)
    \/ ProcessReadFails(p)

-----------------------------------------------------------------------------
(* Properties *)

\* C1: chunk-boundary invariance.  For a body of complete frames, however it is
\* cut into chunks, the read loop hands the same frames in the same order to the
\* parser, and leaves the same files, as when it gets the body in one read.
C1_ChunkBoundaryInvariance ==
    (FramingDone /\ TrailingPartial(stream) = <<>>)
        => /\ emitted = OneRead.frames
           /\ files = OneRead.files

\* C9: between reads nothing of a partial trailing frame is dropped and no frame
\* is handed to the parser twice: the text after the last blank line delivered
\* so far is still at the end of the buffer, and no payload was handed over more
\* often than the body holds it.
C9_NoPartialDiscardedNoDuplicate ==
    (stream # <<>> /\ passes[1].pc = "read")
        => /\ IsSuffix(TrailingPartial(SubSeq(stream, 1, fed)), passes[1].buffer)
           /\ \A o \in StreamOpeners :
                  Occurrences(emitted, Payload(o))
                      <= Occurrences(TerminatedPayloads(stream), Payload(o))
                         + (IF Trim(TrailingPartial(stream)) = <<DATA, SP>> \o Payload(o)
                            THEN 1 ELSE 0)

\* C10: text that no blank line ends is never a frame.  When the body has ended,
\* a file that no terminated frame of the body names is as the reset left it.
C10_UnterminatedNeverMerged ==
    FramingDone =>
        \A k \in DOMAIN files :
            (\A m \in DOMAIN TerminatedPayloads(stream) :
                 JSONParse(TerminatedPayloads(stream)[m]).id # files[k].id)
                => files[k] = FilesAfterReset(currentStep)[k]

\* C2: decode failures are local.  A step that takes in a chunk, whatever its
\* frames hold (a payload that does not parse, a payload without id), ends no
\* pass, sets no top-level error, and changes no entity but those its merged
\* events name.
C2_DecodeFailuresLocal ==
    [][delivered' = delivered + 1 =>
          /\ \A p \in PassIds : passes'[p].pc = passes[p].pc
          /\ apiError' = apiError
          /\ error' = error
          /\ \A k \in DOMAIN files :
                 files'[k] # files[k] =>
                     \E m \in DOMAIN lastMerges' : lastMerges'[m].id = files[k].id]_vars

\* C3: terminal once set.  A merged event never moves an entity out of Succeeded
\* or Failed, and an event that reports the other terminal status leaves the
\* entity as it was.
C3_TerminalOnceSet ==
    \A m \in DOMAIN lastMerges :
        \A k \in DOMAIN lastMerges[m].before :
            LET e == lastMerges[m]
                b == e.before[k]
                a == e.after[k]
            IN  (b.id = e.id /\ StatusOf(KindOf(e), b) \in Terminal) =>
                    /\ StatusOf(KindOf(e), a) = StatusOf(KindOf(e), b)
                    /\ (EventStatus(e.event) \in Terminal \ {StatusOf(KindOf(e), b)}) => a = b

\* C4: a transport error of pass p makes every entity of the pass that is still
\* Pending Failed with the connection-error message, leaves the entities that
\* are Succeeded or Failed as they are, ends the pass as failed and sets the
\* top-level error once.
C4_TransportErrorFailsPending ==
    [][\A p \in PassIds :
          TransportFails(p) =>
              /\ \A k \in DOMAIN files :
                     files[k].id \in passes[p].ids =>
                         IF StatusOf(passes[p].kind, files[k]) = "Pending"
                         THEN /\ StatusOf(passes[p].kind, files'[k]) = "Failed"
                              /\ files'[k].error = ConnectionError
                         ELSE files'[k] = files[k]
              /\ passes'[p].outcome = "failed"
              /\ passes'[p].notified = 1
              /\ TopError(p)' # Undefined]_vars

\* C5: with A and B tracked, A Succeeded and B still Pending, a read of the pass
\* that fails leaves A Succeeded, makes B Failed with the connection-error
\* message, ends the pass as failed and notifies the caller once.
C5_CloseAfterFirstEvent ==
    [][\A p \in PassIds :
          ( /\ IngestReadFails(p) \/ ProcessReadFails(p)
            /\ passes[p].ids = {"A", "B"}
            /\ StatusOf(passes[p].kind, FileOf(files, "A")) = "Succeeded"
            /\ StatusOf(passes[p].kind, FileOf(files, "B")) = "Pending" )
          => /\ StatusOf(passes[p].kind, FileOf(files', "A")) = "Succeeded"
             /\ StatusOf(passes[p].kind, FileOf(files', "B")) = "Failed"
             /\ FileOf(files', "B").error = ConnectionError
             /\ passes'[p].outcome = "failed"
             /\ passes'[p].notified = 1]_vars

\* C6: at most one read loop is in flight.
C6_AtMostOneStream == Cardinality({p \in PassIds : InFlight(p)}) <= 1

waitingCount ==
    CountWhere(files, LAMBDA f : IsIngestSelected(f) /\ f.ingestionStatus = Undefined)

-----------------------------------------------------------------------------
(* The end of a pass *)

\* the busy flag of the component of a pass
Busy(kind) == IF kind = "ingest" THEN isIngesting ELSE isProcessing

\* a step in which reader.read() of pass p reports the end of the body
EndOfStream(p) == IngestReadDone(p) \/ ProcessReadDone(p)

\* a step in which the byte source of pass p ends: end of the body, or a failed read
SourceEnds(p) ==
    \/ IngestReadDone(p)
    \/ IngestReadFails(p)
    \/ ProcessReadDone(p)
    \/ ProcessReadFails(p)

\* the next step of a pass that does not depend on the server sending data:
\* the timer fires, the request is answered or fails, the body ends or fails
PassMoves(p) ==
    /\ p \in PassIds
    /\ \/ ProcessFiles(p)
       \/ IngestResponse(p) \/ IngestRequestFails(p)
       \/ ProcessResponse(p) \/ ProcessRequestFails(p)
       \/ SourceEnds(p)

\* Timers fire, requests settle, and the byte source ends or fails.
SpecLive == Spec /\ \A p \in 1..MaxPasses : WF_vars(PassMoves(p))

\* C11: the reader is released on every exit path.  A pass leaves its read loop
\* only with its reader cancelled, or because the byte source itself has ended
\* (end of the body, failed read).
C11_ReaderReleased ==
    [][\A p \in PassIds :
          (passes[p].pc = "read" /\ passes'[p].pc = "done")
              => (passes'[p].released \/ SourceEnds(p))]_vars

\* C12: every pass ends exactly once.  A pass that has ended stays as it ended;
\* a pass that ends is Completed or Failed and leaves the busy flag false; the
\* end of the body ends the pass as Completed with no top-level error set.
C12_PassEndsOnce ==
    [][\A p \in PassIds :
          /\ passes[p].pc = "done" => passes'[p] = passes[p]
          /\ (passes[p].pc # "done" /\ passes'[p].pc = "done")
                 => /\ passes'[p].outcome \in {"completed", "failed"}
                    /\ ~Busy(passes[p].kind)'
          /\ EndOfStream(p)
                 => /\ passes'[p].outcome = "completed"
                    /\ TopError(p)' = Undefined]_vars

\* C12, the progress part: under SpecLive every pass that was started ends.
C12_EveryPassEnds ==
    \A p \in 1..MaxPasses : (Len(passes) >= p) ~> (Len(passes) >= p /\ passes[p].pc = "done")

\* the operations the two components offer to their caller: the buttons
CallerStep ==
    \/ StartIngestion
    \/ RetryFailedIngestion
    \/ StartProcessing
    \/ RetryFailedProcessing

\* a step of the caller that cancels pass p: the pass leaves its read loop as
\* Cancelled with its reader released, and no file changes
CancelStep(p) ==
    /\ CallerStep
    /\ passes[p].pc = "read"
    /\ passes'[p].pc = "done"
    /\ passes'[p].outcome = "cancelled"
    /\ passes'[p].released
    /\ files' = files

\* C13: while a pass is streaming the caller can cancel it: one of the caller's
\* operations releases the byte source, ends the pass as Cancelled and leaves
\* every entity with the status it has.
C13_CancelWhileStreaming ==
    \A p \in PassIds : InFlight(p) => ENABLED CancelStep(p)

-----------------------------------------------------------------------------
(* Merges *)

\* the updater of the read loop of a component
MergeOf(kind, fs, event) ==
    IF kind = "ingest" THEN MergeIngest(fs, event) ELSE MergeProcess(fs, event)

\* the updater writes an entity: its condition `f.id === id` holds for a file
Applied(m) == \E k \in DOMAIN m.before : m.before[k].id = m.id

\* the detail of an entity, as each component keeps it
Detail(kind, f) == IF kind = "ingest" THEN f.ingestionDetails ELSE f.analysis

\* C14: idempotent terminal merge.  In the first pass, a terminal event for an
\* entity that already holds what the event writes (the event was merged
\* before) leaves the files as they are and is rejected, not applied.
C14_IdempotentTerminalMerge ==
    \A m \in DOMAIN lastMerges :
        LET e == lastMerges[m]
        IN  ( /\ Len(passes) = 1
              /\ EventStatus(e.event) \in Terminal
              /\ \E k \in DOMAIN e.before :
                     /\ e.before[k].id = e.id
                     /\ StatusOf(KindOf(e), e.before[k]) = EventStatus(e.event)
              /\ MergeOf(KindOf(e), e.before, e.event) = e.before )
            => /\ e.after = e.before
               /\ ~Applied(e)

\* C15: a merged event for an entity that is Pending gives the entity the status
\* the event reports, with the error message of the event.
C15_AppliedMergeSetsStatus ==
    \A m \in DOMAIN lastMerges :
        \A k \in DOMAIN lastMerges[m].before :
            LET e == lastMerges[m]
                b == e.before[k]
                a == e.after[k]
            IN  (b.id = e.id /\ StatusOf(KindOf(e), b) = "Pending")
                    => /\ StatusOf(KindOf(e), a) = EventStatus(e.event)
                       /\ a.error = e.event.error

\* C19: an event that carries its id as file_id is merged as the same event
\* carrying it as fileId.
C19_BothIdNames ==
    \A m \in DOMAIN lastMerges :
        LET e == lastMerges[m]
        IN  e.event.key = "file_id"
                => e.after = MergeOf(KindOf(e), e.before, [e.event EXCEPT !.key = "fileId"])

-----------------------------------------------------------------------------
(* Progress *)

\* (succeededCount + failedCount) / totalTracked * 100, and 0 with nothing tracked
percentComplete ==
    IF totalTracked = 0 THEN 0 ELSE ((successCount + failedCount) * 100) \div totalTracked

\* the progress value the step shown displays
ShownProgress == IF currentStep = 5 THEN ingestionProgress ELSE processingProgress

\* the number of entities the step shown tracks
ShownTotal == IF currentStep = 5 THEN totalTracked ELSE Cardinality(selectedFiles)

\* C16: the progress the ingestion step shows is the derived one.
C16_ProgressDerived == currentStep = 5 => ingestionProgress = percentComplete

\* C17: the percentage shown is within 0..100, and 0 when nothing is tracked.
C17_PercentInRange ==
    /\ 0 <= ShownProgress
    /\ ShownProgress <= 100
    /\ ShownTotal = 0 => ShownProgress = 0

\* the body of the scenario: A's success frame, then B's failed frame
ScenarioBody ==
    Frame(Opener("fileId", "A", "success", Undefined, NoProgress))
    \o Frame(Opener("fileId", "B", "failed", "timeout", NoProgress))

\* C18: the body is A's success frame followed by B's failed frame with error
\* "timeout", and B's frame is cut inside its payload (after the 9th token).
\* The read that brings the rest of B's frame, with A already Succeeded, leaves
\* A Succeeded, B Failed with "timeout" and the percentage shown at 100; the end
\* of the body that follows changes neither the files nor the percentage.
C18_ScenarioSplitFailure ==
    [][/\ ( /\ stream = ScenarioBody
            /\ fed = 9
            /\ fed' = Len(stream)
            /\ StatusOf(passes[1].kind, FileOf(files, "A")) = "Succeeded" )
          => /\ StatusOf(passes[1].kind, FileOf(files', "A")) = "Succeeded"
             /\ StatusOf(passes[1].kind, FileOf(files', "B")) = "Failed"
             /\ FileOf(files', "B").error = "timeout"
             /\ ShownProgress' = 100
       /\ ( /\ stream = ScenarioBody
            /\ passes[1].pc = "read"
            /\ passes'[1].pc = "done"
            /\ passes'[1].outcome = "completed" )
          => /\ files' = files
             /\ ShownProgress' = ShownProgress]_vars

-----------------------------------------------------------------------------
(* Reset *)

\* C20: a step that starts a pass (start or retry) leaves exactly the entities
\* of the pass Pending with detail and error message cleared, and every other
\* entity as it was; the stream of the pass is not open yet.
C20_ResetBeforeStream ==
    [][Len(passes') = Len(passes) + 1 =>
          LET p == Len(passes')
              kind == passes'[p].kind
          IN  /\ passes'[p].pc \in {"timer", "fetch"}
              /\ \A k \in DOMAIN files :
                     IF files[k].id \in passes'[p].ids
                     THEN /\ StatusOf(kind, files'[k]) = "Pending"
                          /\ files'[k].error = Undefined
                          /\ Detail(kind, files'[k]) = Undefined
                     ELSE files'[k] = files[k]]_vars

C20_Witness ==
    /\ Len(passes) = 2
    /\ passes[2].kind = "ingest"
    /\ passes[2].pc = "fetch"
    /\ passes[2].ids = {"B"}
    /\ FileOf(files, "B").ingestionStatus = "pending"
    /\ FileOf(files, "B").error = Undefined
    /\ FileOf(files, "A").ingestionStatus = "success"

-----------------------------------------------------------------------------
(* Retry *)

C22_ErrorOnlyWhenFailed ==
    \A k \in DOMAIN files :
        files[k].error # Undefined
            => StatusOf(IF currentStep = 5 THEN "ingest" ELSE "process", files[k]) = "Failed"

-----------------------------------------------------------------------------
(* Concurrent passes, frame conditions, the busy flag *)

\* a step of pass p: its position or buffer changes, or it merges an event
StepOf(p) ==
    \/ passes'[p] # passes[p]
    \/ \E m \in DOMAIN lastMerges' : lastMerges'[m].pass = p

\* C24: merges are serialized.  The first merge of a step starts from the files
\* as they are (with every update made so far, by whichever pass), each further
\* merge from the result of the one before, and the step leaves the result of
\* the last merge, unless it ends the pass.
C24_MergesSerialized ==
    [][lastMerges' # <<>> =>
          LET n == Len(lastMerges')
          IN  /\ lastMerges'[1].before = files
              /\ \A i \in 1..(n - 1) : lastMerges'[i + 1].before = lastMerges'[i].after
              /\ passes'[lastMerges'[n].pass].pc = "read" => files' = lastMerges'[n].after]_vars

C24_Witness ==
    /\ Len(passes) = 2
    /\ InFlight(1)
    /\ InFlight(2)
    /\ \E m \in DOMAIN lastMerges :
           /\ lastMerges[m].pass = 2
           /\ lastMerges[m].id = "B"
           /\ FileOf(lastMerges[m].before, "A").processed
           /\ ~FileOf(lastMerges[m].before, "B").processed
    /\ FileOf(files, "A").processed
    /\ FileOf(files, "B").processed

\* C25: a step of a retry pass (a pass over some of the files) changes no entity
\* that is not of the pass.
C25_RetryLeavesOthers ==
    [][\A p \in PassIds :
          (passes[p].ids # AllIds /\ StepOf(p))
              => \A k \in DOMAIN files :
                     files[k].id \notin passes[p].ids => files'[k] = files[k]]_vars

\* C26: a step that ends a pass leaves no entity of the pass Pending.
C26_NoPendingAfterEnd ==
    [][\A p \in PassIds :
          (passes[p].pc # "done" /\ passes'[p].pc = "done")
              => \A k \in DOMAIN files :
                     files[k].id \in passes[p].ids
                         => StatusOf(passes[p].kind, files'[k]) # "Pending"]_vars

\* C27: the busy flag is true while a pass is between its reset and its end, and
\* becomes false only when no read loop remains in flight.
C27_BusyWhilePass ==
    [][\A kind \in {"ingest", "process"} :
          /\ \A p \in DOMAIN passes' :
                 (passes'[p].kind = kind /\ passes'[p].pc # "done") => Busy(kind)'
          /\ (Busy(kind) /\ ~Busy(kind)')
                 => \A p \in DOMAIN passes' :
                        passes'[p].kind = kind => passes'[p].pc # "read"]_vars

\* C28: a merge changes only the entity the event names: the other entities, the
\* order and the number of entities are as before, and of the entity named only
\* status, detail and error message may differ.
C28_MergeFrame ==
    \A m \in DOMAIN lastMerges :
        LET e == lastMerges[m]
        IN  /\ Len(e.after) = Len(e.before)
            /\ \A k \in DOMAIN e.before :
                   LET b == e.before[k]
                       a == e.after[k]
                   IN  /\ a.id = b.id
                       /\ a.selected = b.selected
                       /\ b.id # e.id => a = b
                       /\ KindOf(e) = "ingest"
                              => a.processed = b.processed /\ a.analysis = b.analysis
                       /\ KindOf(e) = "process"
                              => /\ a.ingestionStatus = b.ingestionStatus
                                 /\ a.ingestionDetails = b.ingestionDetails

C28_Witness ==
    \E m \in DOMAIN lastMerges :
        LET e == lastMerges[m]
        IN  /\ KindOf(e) = "process"
            /\ e.id = "B"
            /\ e.after # e.before
            /\ FileOf(e.before, "A").processed
            /\ FileOf(e.before, "A").error # Undefined

\* C29: the completion banner of the ingestion step (not ingesting, progress
\* 100) is shown only when no tracked entity is Pending and no top-level error
\* is set.
C29_BannerOnlyWhenComplete ==
    (currentStep = 5 /\ ~isIngesting /\ ingestionProgress = 100)
        => (pendingCount = 0 /\ apiError = Undefined)

-----------------------------------------------------------------------------
(* The wizard's navigation, from the two steps that own a stream *)

\* canProceed() of the page
canProceed ==
    CASE currentStep = 1 -> Len(files) > 0
      [] currentStep = 2 -> \A k \in DOMAIN files : files[k].selected => files[k].processed
      [] currentStep = 3 -> \E k \in DOMAIN files : files[k].selected
      [] currentStep = 5 ->
             \A k \in DOMAIN files : files[k].selected => files[k].ingestionStatus # "pending"
      [] OTHER -> TRUE

\* the wizard leaves the step shown for the step `to`; the passes go on
GoToStep(to) ==
    /\ currentStep' = to
    /\ History(<<>>)
    /\ UNCHANGED <<files, passes, ingestVars, processVars, frameVars>>

\* click on "Next", on a step that owns a stream
NextStep ==
    /\ currentStep \in {2, 5}
    /\ canProceed
    /\ currentStep < 6
    /\ GoToStep(currentStep + 1)

\* click on "Previous", on a step that owns a stream
PrevStep ==
    /\ currentStep \in {2, 5}
    /\ currentStep > 1
    /\ GoToStep(currentStep - 1)

\* autoAdvanceToSummary and its timer of 1.5 s, with nothing else in between
AutoAdvance ==
    /\ currentStep = 5
    /\ \E k \in DOMAIN files : files[k].selected
    /\ \A k \in DOMAIN files :
           files[k].selected => files[k].ingestionStatus \in {"success", "failed"}
    /\ GoToStep(6)

NextWizard ==
    \/ Next
    \/ NextStep
    \/ PrevStep
    \/ AutoAdvance

SpecWizard == Init /\ [][NextWizard]_vars

\* the step that shows the component of a pass
StepOfKind(kind) == IF kind = "ingest" THEN 5 ELSE 2

\* C30: while a read loop is in flight the wizard shows the step that owns it;
\* so the Summary step (6) is shown only when no read loop is in flight.
C30_StepOwnsStream ==
    \A p \in PassIds : InFlight(p) => currentStep = StepOfKind(passes[p].kind)

-----------------------------------------------------------------------------
(* Step 1: the file list is built by FileSelection.  An entity of this step
   keeps the fields the handlers of the component read or write: id, name,
   size, selected, processed, uploaded, isDuplicate and whether it holds a
   File object.  An upload request in flight is the only element of `passes`. *)

MaxFiles == 2     \* entities in the list
MaxPicked == 2    \* files of one selection in the file dialog

FileNames == {"a.pdf", "b.pdf"}
FileSizes == {1, 2}
LastModified == {7}
ServerIds == {<<"s1">>, <<"s2">>, <<"s3">>}   \* ids the server gives
Duplicate == <<"duplicate">>                  \* the server has the file already

\* the File objects the dialog can hand over
Picks == [name : FileNames, size : FileSizes, lastModified : LastModified]

\* `${file.name}-${file.size}-${file.lastModified}`: the two numbers end the
\* string, so it is read back in one way only
LocalId(file) == <<file.name, file.size, file.lastModified>>

LocalFile(file) ==
    [id |-> LocalId(file), name |-> file.name, size |-> file.size, selected |-> TRUE,
     processed |-> FALSE, uploaded |-> FALSE, isDuplicate |-> FALSE, file |-> TRUE]

DownloadedFile(id, name, size) ==
    [id |-> id, name |-> name, size |-> size, selected |-> TRUE,
     processed |-> FALSE, uploaded |-> TRUE, isDuplicate |-> FALSE, file |-> TRUE]

DuplicateUrlFile(id, name) ==
    [id |-> id, name |-> name, size |-> 0, selected |-> FALSE,
     processed |-> TRUE, uploaded |-> FALSE, isDuplicate |-> TRUE, file |-> FALSE]

IdsOf(fs) == {fs[k].id : k \in DOMAIN fs}

\* [...prevFiles, ...newFiles.filter(f => !existingIds.has(f.id))]
AppendUnique(prevFiles, newFiles) ==
    prevFiles \o SelectSeq(newFiles, LAMBDA f : f.id \notin IdsOf(prevFiles))

\* one selection of the dialog: files of one directory, so of different names
Selections ==
    {sel \in UNION {[1..n -> Picks] : n \in 1..MaxPicked} :
        \A i, j \in DOMAIN sel : i # j => sel[i].name # sel[j].name}

isUploading == passes # <<>>

uploadFrame == UNCHANGED <<currentStep, ingestVars, processVars, frameVars, lastMerges>>

\* handleFileUpload
HandleFileUpload ==
    /\ currentStep = 1
    /\ \E sel \in Selections :
        /\ Len(files) + Len(sel) <= MaxFiles
        /\ files' = AppendUnique(files, [i \in DOMAIN sel |-> LocalFile(sel[i])])
    /\ UNCHANGED passes
    /\ uploadFrame

\* handleUrlUpload, for one URL: the response is a success with the id the
\* server gave to the download, a duplicate with the id of a file the server
\* has, or an error that adds nothing
HandleUrlUpload ==
    /\ currentStep = 1
    /\ Len(files) < MaxFiles
    /\ \E name \in FileNames :
        \/ \E id \in ServerIds \ IdsOf(files), size \in FileSizes :
               files' = AppendUnique(files, <<DownloadedFile(id, name, size)>>)
        \/ \E id \in ServerIds :
               files' = AppendUnique(files, <<DuplicateUrlFile(id, name)>>)
        \/ files' = files
    /\ UNCHANGED passes
    /\ uploadFrame

\* handleDeleteFile
HandleDeleteFile ==
    /\ currentStep = 1
    /\ \E fileId \in IdsOf(files) :
           files' = SelectSeq(files, LAMBDA f : f.id # fileId)
    /\ UNCHANGED passes
    /\ uploadFrame

\* toggleFileSelection; the checkbox of a duplicate is disabled
toggleFileSelection ==
    /\ currentStep = 1
    /\ \E k \in DOMAIN files :
        /\ ~files[k].isDuplicate
        /\ files' = [j \in DOMAIN files |->
                        IF files[j].id = files[k].id
                        THEN [files[j] EXCEPT !.selected = ~files[j].selected]
                        ELSE files[j]]
    /\ UNCHANGED passes
    /\ uploadFrame

\* toggleAllFiles
toggleAllFiles ==
    /\ currentStep = 1
    /\ files # <<>>
    /\ \E checked \in BOOLEAN :
           files' = [j \in DOMAIN files |-> [files[j] EXCEPT !.selected = checked]]
    /\ UNCHANGED passes
    /\ uploadFrame

selectedCount == Cardinality({k \in DOMAIN files : files[k].selected})

allFilesUploaded ==
    Len(files) > 0 /\ \A k \in DOMAIN files : files[k].uploaded \/ files[k].isDuplicate

\* the updater of handleUploadAndProceed: serverFileMap is keyed by file name
MarkUploaded(prevFiles, duplicateNameSet, serverFileMap, alreadyUploadedFiles) ==
    [k \in DOMAIN prevFiles |->
        LET pf == prevFiles[k] IN
        IF pf.selected /\ pf.name \in duplicateNameSet
        THEN [pf EXCEPT !.isDuplicate = TRUE, !.selected = FALSE, !.processed = TRUE]
        ELSE IF pf.name \in DOMAIN serverFileMap
        THEN [pf EXCEPT !.id = serverFileMap[pf.name], !.uploaded = TRUE]
        ELSE IF pf.name \in alreadyUploadedFiles
        THEN [pf EXCEPT !.uploaded = TRUE]
        ELSE pf]

\* files.filter(f => f.selected && !f.isDuplicate), as list positions
UploadSelected == {k \in DOMAIN files : files[k].selected /\ ~files[k].isDuplicate}

\* selectedFiles.filter(f => f.file && !f.uploaded), the names in list order
localFilesToUpload ==
    LET loc == SelectSeq(files, LAMBDA f : f.selected /\ ~f.isDuplicate /\ f.file /\ ~f.uploaded)
    IN  [i \in DOMAIN loc |-> loc[i].name]

\* click on "Upload & Continue": with nothing to send the handler runs to its
\* end, otherwise it waits for the response
HandleUploadAndProceed ==
    /\ currentStep = 1
    /\ selectedCount # 0 /\ ~isUploading /\ ~allFilesUploaded
    /\ UploadSelected # {}
    /\ LET already == {files[k].name : k \in {j \in UploadSelected : files[j].uploaded}} IN
       IF localFilesToUpload = <<>>
       THEN /\ files' = MarkUploaded(files, {}, <<>>, already)
            /\ UNCHANGED passes
       ELSE /\ passes' = <<[kind |-> "upload", pc |-> "fetch",
                            sent |-> localFilesToUpload, alreadyUploadedFiles |-> already]>>
            /\ UNCHANGED files
    /\ uploadFrame

\* the answers of a server that gives every new file an id of its own: for each
\* file sent, Duplicate or an id that no entity and no other file has
UploadResults(sent) ==
    {r \in [DOMAIN sent -> ServerIds \cup {Duplicate}] :
        /\ \A i \in DOMAIN sent : r[i] \notin IdsOf(files)
        /\ \A i, j \in DOMAIN sent : (i # j /\ r[i] # Duplicate) => r[i] # r[j]}

\* new Map(uploadedFileResults.map(f => [f.name, f])): the last record of a name
ServerFileMap(sent, r) ==
    LET names == {sent[i] : i \in {j \in DOMAIN sent : r[j] # Duplicate}}
        last(n) == CHOOSE i \in DOMAIN sent :
                       /\ sent[i] = n /\ r[i] # Duplicate
                       /\ \A j \in DOMAIN sent : (sent[j] = n /\ r[j] # Duplicate) => j <= i
    IN  [n \in names |-> r[last(n)]]

\* the response of /upload-files/ arrives
UploadResponds ==
    /\ currentStep = 1
    /\ isUploading
    /\ LET up == passes[1] IN
       \E r \in UploadResults(up.sent) :
           files' = MarkUploaded(files,
                                 {up.sent[i] : i \in {j \in DOMAIN up.sent : r[j] = Duplicate}},
                                 ServerFileMap(up.sent, r),
                                 up.alreadyUploadedFiles)
    /\ passes' = <<>>
    /\ uploadFrame

\* the request fails or the server answers with an error status
UploadFails ==
    /\ currentStep = 1
    /\ isUploading
    /\ passes' = <<>>
    /\ UNCHANGED files
    /\ uploadFrame

InitUpload ==
    /\ currentStep = 1
    /\ files = <<>>
    /\ passes = <<>>
    /\ isIngesting = FALSE
    /\ apiError = Undefined
    /\ ingestionProgress = 0
    /\ isProcessing = FALSE
    /\ error = Undefined
    /\ processedFileCount = 0
    /\ processingProgress = 0
    /\ lastMerges = <<>>
    /\ delivered = 0
    /\ stream = <<>>
    /\ fed = 0
    /\ emitted = <<>>

NextUpload ==
    \/ HandleFileUpload
    \/ HandleUrlUpload
    \/ HandleDeleteFile
    \/ toggleFileSelection
    \/ toggleAllFiles
    \/ HandleUploadAndProceed
    \/ UploadResponds
    \/ UploadFails

SpecUpload == InitUpload /\ [][NextUpload]_vars

\* C23: no two entities of the file list share an id.
C23_IdsUnique ==
    \A i, j \in DOMAIN files : i # j => files[i].id # files[j].id

====
